---- MODULE Spec2Model ----
(***************************************************************************)
(* Live-connection core of the chat server (src/config/socket.js): the    *)
(* socket authentication middleware, the connection handler, the presence  *)
(* map onlineUsers, socket.io rooms, the message, typing, status,          *)
(* read-receipt and leave-group handlers and the disconnect handler,       *)
(* together with the Message / Group / User collections they read and      *)
(* write, and the REST routes that change a group or mark messages read.   *)
(*                                                                         *)
(* Every "await" of the source is a suspension point: the handler's code   *)
(* up to the await is one action, the completion of the store call and the *)
(* code up to the next await is the next action.  A store call may fail.   *)
(***************************************************************************)
EXTENDS Integers, FiniteSets, Sequences, Bags, TLC

\* ---------------------------------------------------------------- bounds
MaxConns == 2
MaxIntents == 2
MaxMsgIntents == 1
MaxReqs == 2
MaxSoloReqs == 1
\* the ceiling of checkGroupSizeLimit; the source configures 100, the model
\* scales it down so that the four ids of the model can exceed it
MAX_GROUP_SIZE == 3

\* ------------------------------------------------------------- universes
Users == {"alice", "bob", "carol"}
Ghost == "ghost"
NoUser == "nobody"
NoToken == "no-token"
BadToken == "bad-token"
Tokens == {NoToken, BadToken} \cup Users \cup {Ghost}
Groups == {"g1"}

\* the ids the store gives to groups created while the server runs
NewGroups == {"g2"}
GroupIds == Groups \cup NewGroups
NoGroup == "no-group"
Conns == 1..MaxConns
Intents == 1..MaxIntents
Reqs == 1..MaxReqs
\* well-formed ObjectId strings: the stored users and one id of no stored user
Ids == Users \cup {Ghost}
Contents == {"", "hi"}

VARIABLES
    conn,        \* per socket: handler position, transport, token, bound userId
    onlineUsers, \* the Map userId -> socket id, as a set of <<userId, socketId>>
    rooms,       \* socket.io adapter: room name -> set of socket ids
    userStore,   \* User collection: isOnline, lastSeen
    groupStore,  \* Group collection: exists, members, admins
    messages,    \* Message collection
    writes,      \* User updates issued and not yet completed
    ops,         \* message intents in flight or finished
    events,      \* bag of emit calls with the sockets each one reached
    observed,    \* the event names the bag records
    clock,       \* number of new Date() values handed out
    proc,        \* the node process: "up", or "exited" after process.exit(1)
    reqs         \* REST requests in flight or answered

vars == <<conn, onlineUsers, rooms, userStore, groupStore, messages, writes,
          ops, events, observed, clock, proc, reqs>>

\* ------------------------------------------------------------- helpers
\* onlineUsers.get(u): the socket id stored for u, or 0 (undefined)
PresenceGet(u) ==
    IF \E p \in onlineUsers : p[1] = u
    THEN (CHOOSE p \in onlineUsers : p[1] = u)[2]
    ELSE 0

\* onlineUsers.has(u)
PresenceHas(u) == \E p \in onlineUsers : p[1] = u

\* Array.from(onlineUsers.keys())
getOnlineUsers == {p[1] : p \in onlineUsers}

\* onlineUsers.set(u, c): at most one entry per key
PresenceSet(u, c) == {p \in onlineUsers : p[1] # u} \cup {<<u, c>>}

\* onlineUsers.delete(u)
PresenceDelete(u) == {p \in onlineUsers : p[1] # u}

\* sockets of the namespace: passed the middleware and transport still open
Connected == {c \in Conns : conn[c].open /\ conn[c].pc \in {"loading", "ready"}}

RoomNames == GroupIds \cup Users

\* one emit call: the event, the handler that made the call and its socket,
\* the intent it belongs to (0: connection lifecycle), the sockets reached
Emit(ev, h, src, id, rcpts, users, msg, text) ==
    [ev |-> ev, h |-> h, src |-> src, id |-> id, rcpts |-> rcpts,
     users |-> users, msg |-> msg, text |-> text]

\* events is an observation log that no handler reads; observed selects the
\* event names a specification records
Log(bag, e) == IF e.ev \in observed THEN bag (+) SetToBag({e}) ELSE bag

\* io.emit(ev, ...): every socket of the namespace
IoEmit(bag, ev, h, src, users) ==
    Log(bag, Emit(ev, h, src, 0, Connected, users, 0, ""))

\* socket.emit(ev, ...): the socket itself, if its transport is still open
SocketEmitTo(c) == IF conn[c].open THEN {c} ELSE {}

\* io.to(socketId).emit: the room every socket joins under its own id
IoToSocket(sid) == IF sid \in Connected THEN {sid} ELSE {}

\* io.to(room).emit: the sockets of the room that are still connected
IoToRoom(r) == IF r \in RoomNames THEN rooms[r] \cap Connected ELSE {}

\* ------------------------------------------------------------ initial state
\* The server has just started: no socket, empty presence map, empty rooms.
\* The database outlives the process: every user is stored offline, group g1
\* exists with alice as admin and either two or three members.
FreshConn == [pc |-> "idle", open |-> FALSE, token |-> NoToken,
              userId |-> NoUser, dh |-> "none"]

FreshOp == [kind |-> "none", c |-> 0, stage |-> "none", to |-> NoUser,
            group |-> NoGroup, content |-> "", at |-> 0, members |-> {}]

\* a Group document as a request holds it; exists FALSE stands for null
NoDoc == [exists |-> FALSE, members |-> {}, admins |-> {}, v |-> 0]

FreshReq == [kind |-> "none", u |-> NoUser, group |-> NoGroup, arg |-> {},
             stage |-> "none", mw |-> 0, doc |-> NoDoc, status |-> 0, at |-> 0,
             content |-> ""]

LifeEvents == {"online-users", "connection-success"}
MsgEvents == {"receive-message", "sent-message", "receive-group-messsage", "error"}

InitStores ==
    /\ conn = [c \in Conns |-> FreshConn]
    /\ onlineUsers = {}
    /\ rooms = [r \in RoomNames |-> {}]
    /\ userStore = [u \in Users |-> [isOnline |-> FALSE, lastSeen |-> 0]]
    /\ \E m \in {{"alice", "bob"}, Users} :
          groupStore = [g \in GroupIds |->
                          IF g \in Groups
                          THEN [exists |-> TRUE, members |-> m, admins |-> {"alice"},
                                v |-> 0]
                          ELSE NoDoc]
    /\ messages = {}
    /\ writes = {}
    /\ ops = [i \in Intents |-> FreshOp]
    /\ events = EmptyBag
    /\ clock = 0
    /\ proc = "up"
    /\ reqs = [r \in Reqs |-> FreshReq]

Init == InitStores /\ observed = LifeEvents \cup MsgEvents

\* --------------------------------------------------- connection gateway
\* jwt.verify(token, secret).userId; NoUser stands for the thrown error
Verify(token) == IF token \in {NoToken, BadToken} THEN NoUser ELSE token

\* User.findById(id): the stored user, or NoUser (null)
FindUserById(id) == IF id \in Users THEN id ELSE NoUser

\* AuthStart with the presence entry written by the middleware
AuthStartRegisters(c, token) ==
    /\ conn[c].pc = "idle"
    /\ \A d \in Conns : d < c => conn[d].pc # "idle"
    /\ IF token = NoToken \/ Verify(token) = NoUser
       THEN /\ conn' = [conn EXCEPT ![c].pc = "refused", ![c].token = token]
            /\ UNCHANGED onlineUsers
       ELSE /\ conn' = [conn EXCEPT ![c].pc = "auth", ![c].open = TRUE,
                                    ![c].token = token]
            /\ onlineUsers' = PresenceSet(Verify(token), c)
    /\ UNCHANGED <<rooms, userStore, groupStore, messages,
                   writes, ops, events, observed, clock, proc, reqs>>

\* socketAuthMiddleware up to "await User.findById": a missing token and a
\* token that does not verify are refused at once.
AuthStart(c, token) ==
    /\ conn[c].pc = "idle"
    /\ \A d \in Conns : d < c => conn[d].pc # "idle"
    /\ IF token = NoToken \/ Verify(token) = NoUser
       THEN conn' = [conn EXCEPT ![c].pc = "refused", ![c].token = token]
       ELSE conn' = [conn EXCEPT ![c].pc = "auth", ![c].open = TRUE,
                                 ![c].token = token]
    /\ UNCHANGED <<onlineUsers, rooms, userStore, groupStore, messages,
                   writes, ops, events, observed, clock, proc, reqs>>

\* First statements of the connection handler, up to "await Group.find":
\* the presence entry is written before the handler suspends.
ConnectionBegin(c, u) ==
    /\ conn' = [conn EXCEPT ![c].pc = "loading", ![c].userId = u]
    /\ onlineUsers' = PresenceSet(u, c)

\* AuthResume without the "if (!user)" test
AuthResumeNoUserTest(c, dbOk) ==
    /\ conn[c].pc = "auth"
    /\ conn[c].open
    /\ IF dbOk
       THEN ConnectionBegin(c, Verify(conn[c].token))
       ELSE /\ conn' = [conn EXCEPT ![c].pc = "refused", ![c].open = FALSE]
            /\ UNCHANGED onlineUsers
    /\ UNCHANGED <<rooms, userStore, groupStore, messages, writes, ops,
                   events, observed, clock, proc, reqs>>

\* socketAuthMiddleware after "await User.findById": a failed lookup and a
\* missing user are refused, otherwise next() runs the connection handler.
AuthResume(c, dbOk) ==
    /\ conn[c].pc = "auth"
    /\ conn[c].open
    /\ LET u == FindUserById(Verify(conn[c].token)) IN
       IF dbOk /\ u # NoUser
       THEN ConnectionBegin(c, u)
       ELSE /\ conn' = [conn EXCEPT ![c].pc = "refused", ![c].open = FALSE]
            /\ UNCHANGED onlineUsers
    /\ UNCHANGED <<rooms, userStore, groupStore, messages, writes, ops,
                   events, observed, clock, proc, reqs>>

\* Group.find({members: u}): ids of the groups that list u
GroupsOf(u) == {g \in GroupIds : groupStore[g].exists /\ u \in groupStore[g].members}

\* socket.join(room names)
JoinAll(rm, c, names) == [r \in RoomNames |-> IF r \in names THEN rm[r] \cup {c} ELSE rm[r]]

\* socket.io leaves every room when the transport closes
LeaveAll(rm, c) == [r \in RoomNames |-> rm[r] \ {c}]

\* Connection handler after "await Group.find": join the group rooms (a
\* failed query is logged and skipped), issue the online write without
\* awaiting it, broadcast online-users, join the personal room, register
\* the event handlers and broadcast connection-success.
ConnectionResume(c, dbOk) ==
    /\ conn[c].pc = "loading"
    /\ LET u == conn[c].userId
           gs == IF dbOk THEN GroupsOf(u) ELSE {}
           e1 == IoEmit(events, "online-users", "connection", c, getOnlineUsers)
       IN /\ rooms' = JoinAll(rooms, c, gs \cup {u})
          /\ writes' = writes \cup {[c |-> c, kind |-> "online", u |-> u, at |-> 0]}
          /\ events' = IoEmit(e1, "connection-success", "connection", c, {u})
    /\ conn' = [conn EXCEPT ![c].pc = "ready"]
    /\ UNCHANGED <<onlineUsers, userStore, groupStore, messages, ops, observed, clock,
                   proc, reqs>>

\* The "disconnect" listener up to "await User.findByIdAndUpdate"
DisconnectBegin(c) ==
    /\ onlineUsers' = PresenceDelete(conn[c].userId)
    /\ writes' = writes \cup {[c |-> c, kind |-> "offline", u |-> conn[c].userId,
                               at |-> clock + 1]}
    /\ clock' = clock + 1

\* The transport of a socket closes.  socket.io removes the socket from its
\* rooms and emits "disconnect"; the listener exists only once the
\* connection handler has run to its end.  A socket that closes while the
\* middleware is suspended is dropped when the middleware calls next().
Close(c) ==
    /\ conn[c].open
    /\ conn[c].pc \in {"auth", "loading", "ready"}
    /\ rooms' = LeaveAll(rooms, c)
    /\ IF conn[c].pc = "ready"
       THEN /\ DisconnectBegin(c)
            /\ conn' = [conn EXCEPT ![c].open = FALSE, ![c].dh = "writing"]
       ELSE /\ conn' = [conn EXCEPT ![c].open = FALSE,
                          ![c].pc = IF conn[c].pc = "auth" THEN "dropped" ELSE @,
                          ![c].dh = IF conn[c].pc = "loading" THEN "missed" ELSE @]
            /\ UNCHANGED <<onlineUsers, writes, clock>>
    /\ UNCHANGED <<userStore, groupStore, messages, ops, events, observed, proc, reqs>>

\* User.findByIdAndUpdate(u, {isOnline, lastSeen})
ApplyWrite(w) ==
    [userStore EXCEPT ![w.u] = IF w.kind = "online"
                               THEN [@ EXCEPT !.isOnline = TRUE]
                               ELSE [isOnline |-> FALSE, lastSeen |-> w.at]]

\* The "disconnect" listener after its await: the rebroadcast follows the
\* write, so a rejected write ends the listener before io.emit.
DisconnectResume(c, ok) ==
    IF ok
    THEN /\ events' = IoEmit(events, "online-users", "disconnect", c, getOnlineUsers)
         /\ conn' = [conn EXCEPT ![c].dh = "done"]
    ELSE /\ conn' = [conn EXCEPT ![c].dh = "failed"]
         /\ UNCHANGED events

\* A User update completes.  The online write of the connection handler is
\* not awaited; the offline write resumes the disconnect listener.
WriteDone(w, ok) ==
    /\ w \in writes
    /\ writes' = writes \ {w}
    /\ userStore' = IF ok THEN ApplyWrite(w) ELSE userStore
    /\ IF w.kind = "offline"
       THEN DisconnectResume(w.c, ok)
       ELSE UNCHANGED <<conn, events>>
    /\ UNCHANGED <<onlineUsers, rooms, groupStore, messages, ops, observed, clock,
                   proc, reqs>>

\* ------------------------------------------------- message dispatch engine
Destructure == {"ok", "missing"}

FreeIntent(i) == ops[i].kind = "none" /\ \A j \in Intents : j < i => ops[j].kind # "none"

\* socket.emit("error", {message: text}) of intent i
EmitError(i, h, c, text) ==
    Log(events, Emit("error", h, c, i, SocketEmitTo(c), {}, 0, text))

\* "send-message" up to "await message.save()".  Destructuring a missing
\* payload throws inside the try block.
SendMessage(c, i, data, to, content) ==
    /\ conn[c].pc = "ready"
    /\ conn[c].open
    /\ FreeIntent(i)
    /\ IF data = "missing"
       THEN /\ ops' = [ops EXCEPT ![i] = [FreshOp EXCEPT !.kind = "direct", !.c = c,
                                                         !.stage = "failed"]]
            /\ events' = EmitError(i, "direct", c, "Failed to send message")
       ELSE /\ ops' = [ops EXCEPT ![i] = [kind |-> "direct", c |-> c, stage |-> "save",
                                         to |-> to, group |-> NoGroup,
                                         content |-> content, at |-> 0,
                                         members |-> {}]]
            /\ UNCHANGED events
    /\ UNCHANGED <<conn, onlineUsers, rooms, userStore, groupStore, messages,
                   writes, observed, clock, proc, reqs>>

\* The document built by "new Message({...})": sender, receiver or group,
\* isRead false, no readAt.  The intent number stands for its _id.
NewMessage(i) ==
    [id |-> i, sender |-> conn[ops[i].c].userId, receiver |-> ops[i].to,
     group |-> ops[i].group, isRead |-> FALSE, readAt |-> 0]

\* Schema validation run by save(): content is required
Validates(i) == ops[i].content # ""

\* SaveDone with the sender's echo emitted whatever the save returns
SaveDoneEchoesFirst(i, dbOk) ==
    /\ ops[i].stage = "save"
    /\ IF dbOk /\ Validates(i)
       THEN /\ messages' = messages \cup {NewMessage(i)}
            /\ ops' = [ops EXCEPT ![i].stage =
                          IF ops[i].kind = "direct" THEN "pop1" ELSE "pop2"]
            /\ UNCHANGED events
       ELSE /\ ops' = [ops EXCEPT ![i].stage = "failed"]
            /\ events' = Log(EmitError(i, ops[i].kind, ops[i].c, "Failed to send message"),
                             Emit("sent-message", ops[i].kind, ops[i].c, i,
                                  SocketEmitTo(ops[i].c), {}, i, ""))
            /\ UNCHANGED messages
    /\ UNCHANGED <<conn, onlineUsers, rooms, userStore, groupStore, writes,
                   observed, clock, proc, reqs>>

\* "await message.save()" completes, for a direct and for a group message.
\* A rejected save goes to the catch block: an error to the caller only.
SaveDone(i, dbOk) ==
    /\ ops[i].stage = "save"
    /\ IF dbOk /\ Validates(i)
       THEN /\ messages' = messages \cup {NewMessage(i)}
            /\ ops' = [ops EXCEPT ![i].stage =
                          IF ops[i].kind = "direct" THEN "pop1" ELSE "pop2"]
            /\ UNCHANGED events
       ELSE /\ ops' = [ops EXCEPT ![i].stage = "failed"]
            /\ events' = EmitError(i, ops[i].kind, ops[i].c, "Failed to send message")
            /\ UNCHANGED messages
    /\ UNCHANGED <<conn, onlineUsers, rooms, userStore, groupStore, writes,
                   observed, clock, proc, reqs>>

\* Fan-out of a direct message: receive-message to the socket the presence
\* map names for the receiver, then sent-message to the sending socket.
FanOutDirect(i) ==
    LET c == ops[i].c
        sid == PresenceGet(ops[i].to)
        e1 == IF sid # 0
              THEN Log(events, Emit("receive-message", "direct", c, i, IoToSocket(sid), {}, i, ""))
              ELSE events
    IN Log(e1, Emit("sent-message", "direct", c, i, SocketEmitTo(c), {}, i, ""))

\* Fan-out of a group message: io.to(groupId).emit
FanOutGroup(i) ==
    Log(events, Emit("receive-group-messsage", "group", ops[i].c, i, IoToRoom(ops[i].group),
                     {}, i, ""))

\* "await message.populate(...)" completes.  After the last populate the
\* handler fans out; a rejected populate goes to the catch block.
PopulateDone(i, dbOk) ==
    /\ ops[i].kind \in {"direct", "group"}
    /\ ops[i].stage \in {"pop1", "pop2"}
    /\ IF ~dbOk
       THEN /\ ops' = [ops EXCEPT ![i].stage = "failed"]
            /\ events' = EmitError(i, ops[i].kind, ops[i].c, "Failed to send message")
       ELSE IF ops[i].stage = "pop1"
       THEN /\ ops' = [ops EXCEPT ![i].stage = "pop2"]
            /\ UNCHANGED events
       ELSE /\ ops' = [ops EXCEPT ![i].stage = "done"]
            /\ events' = IF ops[i].kind = "direct" THEN FanOutDirect(i)
                                                   ELSE FanOutGroup(i)
    /\ UNCHANGED <<conn, onlineUsers, rooms, userStore, groupStore, messages,
                   writes, observed, clock, proc, reqs>>

\* "send-group-message" up to "await Group.findById(groupId)"
SendGroupMessage(c, i, data, g, content) ==
    /\ conn[c].pc = "ready"
    /\ conn[c].open
    /\ FreeIntent(i)
    /\ IF data = "missing"
       THEN /\ ops' = [ops EXCEPT ![i] = [FreshOp EXCEPT !.kind = "group", !.c = c,
                                                         !.stage = "failed"]]
            /\ events' = EmitError(i, "group", c, "Failed to send message")
       ELSE /\ ops' = [ops EXCEPT ![i] = [kind |-> "group", c |-> c, stage |-> "find",
                                         to |-> NoUser, group |-> g,
                                         content |-> content, at |-> 0,
                                         members |-> {}]]
            /\ UNCHANGED events
    /\ UNCHANGED <<conn, onlineUsers, rooms, userStore, groupStore, messages,
                   writes, observed, clock, proc, reqs>>

\* Group.findById(g): TRUE when a group document comes back
GroupFound(g) == g \in GroupIds /\ groupStore[g].exists

\* IsMember answered from the room of the group instead of the stored group
IsMemberByRoom(g, u) == \E c \in rooms[g] : conn[c].userId = u

\* group.members.includes(socket.userId)
IsMember(g, u) == u \in groupStore[g].members

\* "await Group.findById" completes: group missing, caller not a member, or
\* the message is built and its save issued.
FindGroupDone(i, dbOk) ==
    /\ ops[i].stage = "find"
    /\ LET c == ops[i].c
           g == ops[i].group
           text == IF ~dbOk THEN "Failed to send message"
                   ELSE IF ~GroupFound(g) THEN "Group not found"
                   ELSE IF ~IsMember(g, conn[c].userId)
                   THEN "You are not a member of this group"
                   ELSE ""
       IN IF text = ""
          THEN /\ ops' = [ops EXCEPT ![i].stage = "save"]
               /\ UNCHANGED events
          ELSE /\ ops' = [ops EXCEPT ![i].stage = "failed"]
               /\ events' = EmitError(i, "group", c, text)
    /\ UNCHANGED <<conn, onlineUsers, rooms, userStore, groupStore, messages,
                   writes, observed, clock, proc, reqs>>

\* "leave-group" up to "await Group.findByIdAndUpdate".  The handler has no
\* try block: a missing payload rejects the handler's promise, which
\* index.js logs.
LeaveGroup(c, i, data, g) ==
    /\ conn[c].pc = "ready"
    /\ conn[c].open
    /\ FreeIntent(i)
    /\ ops' = [ops EXCEPT ![i] = [kind |-> "leave", c |-> c,
                                  stage |-> IF data = "missing" THEN "failed" ELSE "pull",
                                  to |-> NoUser,
                                  group |-> IF data = "missing" THEN NoGroup ELSE g,
                                  content |-> "", at |-> 0, members |-> {}]]
    /\ UNCHANGED <<conn, onlineUsers, rooms, userStore, groupStore, messages,
                   writes, events, observed, clock, proc, reqs>>

\* {$pull: {members: u}} on group g
PullMember(g, u) ==
    IF GroupFound(g)
    THEN [groupStore EXCEPT ![g].members = @ \ {u}]
    ELSE groupStore

\* "await Group.findByIdAndUpdate" completes, then socket.leave(groupId)
LeaveGroupDone(i, dbOk) ==
    /\ ops[i].stage = "pull"
    /\ IF dbOk
       THEN /\ groupStore' = PullMember(ops[i].group, conn[ops[i].c].userId)
            /\ rooms' = [r \in RoomNames |->
                            IF r = ops[i].group THEN rooms[r] \ {ops[i].c} ELSE rooms[r]]
            /\ ops' = [ops EXCEPT ![i].stage = "done"]
       ELSE /\ ops' = [ops EXCEPT ![i].stage = "failed"]
            /\ UNCHANGED <<groupStore, rooms>>
    /\ UNCHANGED <<conn, onlineUsers, userStore, messages, writes, events,
                   observed, clock, proc, reqs>>

\* --------------------------------------------------------- create-group
\* The payload of create-group: a name and an array of member ids, no
\* payload at all, or a payload whose members field is not an array.
CreateData == {"ok", "missing", "not-array"}
Names == {"", "team"}
CreateEvents == {"group-created", "error"}

\* "create-group" up to "await Group.create".  The payload is destructured
\* in the parameter list of the async listener, outside its try block: a
\* missing payload rejects the promise and nothing is emitted.
CreateGroup(c, i, data, name, members) ==
    /\ conn[c].pc = "ready"
    /\ conn[c].open
    /\ FreeIntent(i)
    /\ IF data = "missing"
       THEN /\ ops' = [ops EXCEPT ![i] = [FreshOp EXCEPT !.kind = "create-group", !.c = c,
                                                         !.stage = "failed"]]
            /\ UNCHANGED events
       ELSE IF name = "" \/ data = "not-array"
       THEN /\ ops' = [ops EXCEPT ![i] = [FreshOp EXCEPT !.kind = "create-group", !.c = c,
                                                         !.stage = "failed"]]
            /\ events' = EmitError(i, "create-group", c, "Invalid group data")
       ELSE /\ ops' = [ops EXCEPT ![i] = [FreshOp EXCEPT !.kind = "create-group", !.c = c,
                                                         !.stage = "create",
                                                         !.content = name,
                                                         !.members = members]]
            /\ UNCHANGED events
    /\ UNCHANGED <<conn, onlineUsers, rooms, userStore, groupStore, messages,
                   writes, observed, clock, proc, reqs>>

\* the document of Group.create({name, members: [...members, userId],
\* admins: [userId]})
NewGroup(i) ==
    [exists |-> TRUE, members |-> ops[i].members \cup {conn[ops[i].c].userId},
     admins |-> {conn[ops[i].c].userId}, v |-> 0]

\* "await Group.create" completes: the store gives the document an unused id
CreateDone(i, dbOk) ==
    /\ ops[i].stage = "create"
    /\ IF dbOk
       THEN \E g \in NewGroups :
              /\ ~groupStore[g].exists
              /\ groupStore' = [groupStore EXCEPT ![g] = NewGroup(i)]
              /\ ops' = [ops EXCEPT ![i].stage = "pop1", ![i].group = g]
              /\ UNCHANGED events
       ELSE /\ ops' = [ops EXCEPT ![i].stage = "failed"]
            /\ events' = EmitError(i, "create-group", ops[i].c, "Failed to create group")
            /\ UNCHANGED groupStore
    /\ UNCHANGED <<conn, onlineUsers, rooms, userStore, messages, writes,
                   observed, clock, proc, reqs>>

\* the sockets that members.forEach joins: the socket the presence map
\* names for a listed member, when io.sockets.sockets still has it
MemberSockets(members) ==
    {d \in Connected : \E m \in members : <<m, d>> \in onlineUsers}

\* "await group.populate" completes, for members and then for admins.  After
\* the second one the creator's socket and the member sockets join the room
\* named by the group id, the room is sent group-created and the creator's
\* socket is sent group-created again.
CreatePopulateDone(i, dbOk) ==
    /\ ops[i].kind = "create-group"
    /\ ops[i].stage \in {"pop1", "pop2"}
    /\ LET c == ops[i].c
           g == ops[i].group
           joined == rooms[g] \cup {c} \cup MemberSockets(ops[i].members)
       IN IF ~dbOk
          THEN /\ ops' = [ops EXCEPT ![i].stage = "failed"]
               /\ events' = EmitError(i, "create-group", c, "Failed to create group")
               /\ UNCHANGED rooms
          ELSE IF ops[i].stage = "pop1"
          THEN /\ ops' = [ops EXCEPT ![i].stage = "pop2"]
               /\ UNCHANGED <<events, rooms>>
          ELSE /\ ops' = [ops EXCEPT ![i].stage = "done"]
               /\ rooms' = [rooms EXCEPT ![g] = joined]
               /\ events' = Log(Log(events,
                                    Emit("group-created", "create-group", c, i,
                                         joined \cap Connected, {}, 0, "")),
                                Emit("group-created", "create-group", c, i,
                                     SocketEmitTo(c), {}, 0, ""))
    /\ UNCHANGED <<conn, onlineUsers, userStore, groupStore, messages, writes,
                   observed, clock, proc, reqs>>

\* ------------------------------------------------------- specifications
\* SpecLife: the connection lifecycle with every handshake outcome and every
\* store failure.  SpecMsg: sockets of stored users and one direct or group
\* message.  SpecGroup: sockets of stored users, group messages and
\* leave-group.  The message specifications leave the User updates pending:
\* no message handler reads the User flags or waits for those updates.
NextLife ==
    \/ \E c \in Conns, t \in Tokens : AuthStart(c, t)
    \/ \E c \in Conns, ok \in BOOLEAN : AuthResume(c, ok)
    \/ \E c \in Conns, ok \in BOOLEAN : ConnectionResume(c, ok)
    \/ \E c \in Conns : Close(c)
    \/ \E w \in writes, ok \in BOOLEAN : WriteDone(w, ok)

SpecLife == Init /\ [][NextLife]_vars

\* The connection lifecycle with a store whose User updates all succeed; two
\* pending updates complete in either order.
NextConverge ==
    \/ \E c \in Conns, t \in Tokens : AuthStart(c, t)
    \/ \E c \in Conns, ok \in BOOLEAN : AuthResume(c, ok)
    \/ \E c \in Conns, ok \in BOOLEAN : ConnectionResume(c, ok)
    \/ \E c \in Conns : Close(c)
    \/ \E w \in writes : WriteDone(w, TRUE)

SpecConverge == Init /\ [][NextConverge]_vars

NextMsg ==
    \/ \E c \in Conns, t \in Users : AuthStart(c, t)
    \/ \E c \in Conns : AuthResume(c, TRUE)
    \/ \E c \in Conns, ok \in BOOLEAN : ConnectionResume(c, ok)
    \/ \E c \in Conns : Close(c)
    \/ \E c \in Conns, i \in 1..MaxMsgIntents, d \in Destructure, to \in Users \cup {NoUser},
          x \in Contents : SendMessage(c, i, d, to, x)
    \/ \E c \in Conns, i \in 1..MaxMsgIntents, d \in Destructure, g \in Groups \cup {NoGroup},
          x \in Contents : SendGroupMessage(c, i, d, g, x)
    \/ \E i \in 1..MaxMsgIntents, ok \in BOOLEAN : FindGroupDone(i, ok)
    \/ \E i \in 1..MaxMsgIntents, ok \in BOOLEAN : SaveDone(i, ok)
    \/ \E i \in 1..MaxMsgIntents, ok \in BOOLEAN : PopulateDone(i, ok)

InitMsg == InitStores /\ observed = MsgEvents

SpecMsg == InitMsg /\ [][NextMsg]_vars

NextGroup ==
    \/ \E c \in Conns, t \in Users : AuthStart(c, t)
    \/ \E c \in Conns : AuthResume(c, TRUE)
    \/ \E c \in Conns, ok \in BOOLEAN : ConnectionResume(c, ok)
    \/ \E c \in Conns : Close(c)
    \/ \E c \in Conns, i \in Intents, d \in Destructure, g \in Groups \cup {NoGroup},
          x \in Contents : SendGroupMessage(c, i, d, g, x)
    \/ \E c \in Conns, i \in Intents, d \in Destructure, g \in Groups \cup {NoGroup} :
          LeaveGroup(c, i, d, g)
    \/ \E i \in Intents, ok \in BOOLEAN : FindGroupDone(i, ok)
    \/ \E i \in Intents, ok \in BOOLEAN : SaveDone(i, ok)
    \/ \E i \in Intents, ok \in BOOLEAN : PopulateDone(i, ok)
    \/ \E i \in Intents, ok \in BOOLEAN : LeaveGroupDone(i, ok)

SpecGroup == InitMsg /\ [][NextGroup]_vars

\* ------------------------------------------------------------ properties
FanOutEvents == {"receive-message", "sent-message", "receive-group-messsage"}

\* the emit calls of event ev made for intent i
EmitsOf(bag, ev, i) == {e \in BagToSet(bag) : e.ev = ev /\ e.id = i}

\* how many times event ev was emitted for intent i
NumEmits(bag, ev, i) == BagCardinality([e \in EmitsOf(bag, ev, i) |-> bag[e]])

\* how many times event ev of intent i reached socket d
DeliveredTo(bag, ev, i, d) ==
    BagCardinality([e \in {x \in EmitsOf(bag, ev, i) : d \in x.rcpts} |-> bag[e]])

Saved(i) == \E m \in messages : m.id = i

Closed(c) ==
    \/ conn[c].pc \in {"refused", "dropped"}
    \/ conn[c].pc \in {"loading", "ready"} /\ ~conn[c].open

Owns(c) == \E p \in onlineUsers : p[2] = c

InSomeRoom(c) == \E r \in RoomNames : c \in rooms[r]

\* C1: after a successful handshake for u the presence map contains u; when
\* that socket disconnects, also while its connection handler is suspended
\* on Group.find, the presence map no longer contains u and an offline write
\* with a last-seen time has been issued for u.
C1_PresenceFollowsConnection ==
    [][\A c \in Conns :
         /\ (conn[c].userId = NoUser /\ conn'[c].userId # NoUser)
               => \E p \in onlineUsers' : p[1] = conn'[c].userId
         /\ (conn[c].userId # NoUser /\ conn[c].open /\ ~conn'[c].open)
               => /\ ~ \E p \in onlineUsers' : p[1] = conn[c].userId
                  /\ \E w \in writes' : /\ w.c = c
                                        /\ w.kind = "offline"
                                        /\ w.u = conn[c].userId
                                        /\ w.at > 0]_vars

\* C8: a refused handshake (no token, a token that does not verify, a stored
\* user that is gone, a failed lookup) leaves the presence map, the rooms,
\* the User flags, the pending writes and the emitted events as they were,
\* and a refused socket never owns a presence entry or sits in a room.
C8_RefusedHandshakeChangesNothing ==
    /\ [](\A c \in Conns : conn[c].pc = "refused" =>
             /\ conn[c].userId = NoUser
             /\ ~conn[c].open
             /\ ~Owns(c)
             /\ ~InSomeRoom(c)
             /\ \A w \in writes : w.c # c
             /\ \A e \in BagToSet(events) : e.src # c /\ c \notin e.rcpts)
    /\ [][\A c \in Conns :
            (conn[c].pc \in {"idle", "auth"} /\ conn'[c].pc = "refused")
               => /\ onlineUsers' = onlineUsers
                  /\ rooms' = rooms
                  /\ userStore' = userStore
                  /\ writes' = writes
                  /\ events' = events]_vars

\* a handshake refused because the verified token names no stored user,
\* while another user is online
C8_Witness ==
    \E c \in Conns : /\ conn[c].pc = "refused"
                     /\ conn[c].token = Ghost
                     /\ onlineUsers # {}
                     /\ events # EmptyBag

\* C9: a socket has a bound user only if its token verified and names a
\* stored user; a closed socket stays closed, is never bound to a user
\* afterwards and never gains a presence entry.
C9_ConnectionStateMachine ==
    /\ [](\A c \in Conns :
             /\ conn[c].userId # NoUser =>
                   /\ conn[c].token \notin {NoToken, BadToken}
                   /\ conn[c].userId = conn[c].token
                   /\ conn[c].userId \in Users
                   /\ conn[c].pc \in {"loading", "ready"}
             /\ conn[c].pc \in {"loading", "ready"} => conn[c].userId # NoUser)
    /\ [][\A c \in Conns :
            Closed(c) => /\ Closed(c)'
                         /\ ~conn'[c].open
                         /\ conn'[c].userId = conn[c].userId
                         /\ (~Owns(c) => ~Owns(c)')]_vars

\* a socket closed by its disconnect listener, and a live socket of the
\* same user that owns the presence entry
C9_Witness ==
    \E c, d \in Conns : /\ c # d
                        /\ conn[c].dh = "done"
                        /\ conn[d].userId = conn[c].userId
                        /\ conn[d].open
                        /\ <<conn[d].userId, d>> \in onlineUsers

\* C10: once the disconnect listener of a socket has ended, whether its
\* offline write succeeded or failed, the socket owns no presence entry, the
\* listener has rebroadcast online-users, and no error event was emitted.
C10_DisconnectAlwaysRebroadcasts ==
    \A c \in Conns : conn[c].dh \in {"done", "failed"} =>
        /\ ~Owns(c)
        /\ \E e \in BagToSet(events) :
              e.ev = "online-users" /\ e.h = "disconnect" /\ e.src = c
        /\ \A e \in BagToSet(events) : e.ev # "error"

\* the sockets of the namespace bound to user u
LiveSocketsOf(u) == {d \in Connected : conn[d].userId = u}

\* intent i of the given kind ends in this step
Finishes(i, kind) ==
    /\ ops[i].kind = kind
    /\ ops[i].stage \notin {"done", "failed"}
    /\ ops'[i].stage \in {"done", "failed"}

\* C2: when A's send-message to B is saved, the handler runs to its end
\* with A still connected, and B has a live socket, exactly one
\* receive-message reaches a socket of B, exactly one sent-message reaches
\* A's socket, and both carry the id of the saved message.
C2_DirectDeliveredOnce ==
    [][\A i \in Intents :
         (/\ Finishes(i, "direct")
          /\ ops'[i].stage = "done"
          /\ conn[ops[i].c].open
          /\ LiveSocketsOf(ops[i].to) # {})
         => /\ \E m \in messages' : m.id = i
            /\ \E d \in LiveSocketsOf(ops[i].to) :
                  DeliveredTo(events', "receive-message", i, d) = 1
            /\ DeliveredTo(events', "sent-message", i, ops[i].c) = 1
            /\ \A e \in BagToSet(events') :
                  (e.id = i /\ e.ev \in FanOutEvents) => e.msg = i]_vars

\* C3: when A's send-message to B is saved and B has no presence entry, the
\* handler emits no receive-message and no error, and the store holds a
\* message with sender A and receiver B.
C3_OfflineReceiverSilent ==
    [][\A i \in Intents :
         (/\ Finishes(i, "direct")
          /\ \E m \in messages : m.id = i
          /\ ~PresenceHas(ops[i].to))
         => /\ NumEmits(events', "receive-message", i) = 0
            /\ NumEmits(events', "error", i) = 0
            /\ \E m \in messages' : /\ m.id = i
                                    /\ m.sender = conn[ops[i].c].userId
                                    /\ m.receiver = ops[i].to]_vars

\* C4: every send-message whose save succeeded has emitted sent-message to
\* the sending socket once its handler has ended.
C4_SavedMessageIsEchoed ==
    \A i \in Intents :
        (ops[i].kind = "direct" /\ ops[i].stage \in {"done", "failed"} /\ Saved(i))
        => NumEmits(events, "sent-message", i) = 1

\* C5: a receive/sent/group-delivery event of an intent exists only once
\* the message of that intent is saved, each is emitted at most once, and an
\* intent whose message was not saved has emitted no such event and exactly
\* one error, from the originating socket to no other socket.
C5_PersistBeforeFanOut ==
    \A i \in Intents :
        /\ \A e \in BagToSet(events) :
              (e.id = i /\ e.ev \in FanOutEvents)
              => Saved(i) /\ ops[i].stage = "done" /\ e.msg = i /\ e.src = ops[i].c
        /\ \A ev \in FanOutEvents : NumEmits(events, ev, i) <= 1
        /\ (ops[i].kind \in {"direct", "group"} /\ ops[i].stage = "failed" /\ ~Saved(i))
           => /\ \A ev \in FanOutEvents : NumEmits(events, ev, i) = 0
              /\ NumEmits(events, "error", i) = 1
              /\ \A e \in EmitsOf(events, "error", i) :
                    e.src = ops[i].c /\ e.rcpts \subseteq {ops[i].c}

\* a save rejected by the store (the content was valid), the error delivered
\* to the sender while another socket is connected
C5_Witness ==
    \E i \in Intents, d \in Connected :
        /\ ops[i].kind \in {"direct", "group"}
        /\ ops[i].stage = "failed"
        /\ ops[i].content = "hi"
        /\ ~Saved(i)
        /\ d # ops[i].c
        /\ \E e \in EmitsOf(events, "error", i) : e.rcpts = {ops[i].c}

\* C6: send-group-message from a user the stored group does not list (or
\* for a group that is not stored) is rejected whatever the room holds: the
\* handler emits one error to the sender, no group delivery, and writes no
\* message; the handler goes on to save only for a stored member.
C6_NonMemberRejected ==
    /\ [](\A i \in Intents :
             (\E e \in EmitsOf(events, "error", i) :
                 e.text \in {"You are not a member of this group", "Group not found"})
             => /\ ~Saved(i)
                /\ ops[i].stage = "failed"
                /\ \A e \in BagToSet(events) :
                      e.id = i => (e.ev = "error" /\ e.rcpts \subseteq {ops[i].c}))
    /\ [][\A i \in Intents :
            (ops[i].kind = "group" /\ ops[i].stage = "find" /\ ops'[i].stage # "find")
            => LET g == ops[i].group
                   member == /\ g \in Groups
                             /\ groupStore[g].exists
                             /\ conn[ops[i].c].userId \in groupStore[g].members
               IN /\ ops'[i].stage = "save" => member
                  /\ ~member => /\ ops'[i].stage = "failed"
                                /\ NumEmits(events', "error", i) = 1
                                /\ NumEmits(events', "receive-group-messsage", i) = 0
                                /\ ~ \E m \in messages' : m.id = i]_vars

\* a sender whose socket is still in the room of the group, rejected
\* because the stored group no longer lists the user
C6_Witness ==
    \E i \in Intents :
        /\ ops[i].kind = "group"
        /\ ops[i].stage = "failed"
        /\ ops[i].group \in Groups
        /\ ops[i].c \in rooms[ops[i].group]
        /\ \E e \in EmitsOf(events, "error", i) :
              e.text = "You are not a member of this group" /\ e.rcpts = {ops[i].c}

\* C7: when a stored member's send-group-message is saved, every socket in
\* the room of the group when the handler ends has received exactly one
\* group delivery of that message and no other socket has received it.
C7_GroupDeliveredToRoom ==
    [][\A i \in Intents :
         (Finishes(i, "group") /\ \E m \in messages : m.id = i)
         => \A d \in Conns :
               DeliveredTo(events', "receive-group-messsage", i, d) =
                  IF d \in rooms[ops[i].group] \cap Connected THEN 1 ELSE 0]_vars

\* ------------------------------------------------- ephemeral signalling
SignalEvents == {"user-typing", "user stop typing ", "messages-read", "user-status",
                 "group-user-typing", "group-user-stop-typing", "error"}

\* A listener that is not an async function throws: the exception reaches
\* process.on("uncaughtException"), which logs it and calls process.exit(1).
\* Every transport closes and no handler runs again.
ProcessExit(i, h, c) ==
    /\ proc' = "exited"
    /\ conn' = [d \in Conns |-> [conn[d] EXCEPT !.open = FALSE]]
    /\ ops' = [ops EXCEPT ![i] = [FreshOp EXCEPT !.kind = h, !.c = c,
                                                 !.stage = "crashed"]]

\* The body shared by the "typing" and "stop-typing" listeners: a missing
\* payload throws at data.receiverId; otherwise the event goes to the socket
\* the presence map names for the receiver, and nowhere without an entry.
TypingSignal(c, i, data, to, h, ev) ==
    /\ proc = "up"
    /\ conn[c].pc = "ready"
    /\ conn[c].open
    /\ FreeIntent(i)
    /\ IF data = "missing"
       THEN /\ ProcessExit(i, h, c)
            /\ UNCHANGED events
       ELSE /\ ops' = [ops EXCEPT ![i] = [FreshOp EXCEPT !.kind = h, !.c = c,
                                                         !.stage = "done", !.to = to]]
            /\ events' = IF PresenceGet(to) # 0
                         THEN Log(events, Emit(ev, h, c, i, IoToSocket(PresenceGet(to)),
                                               {conn[c].userId}, 0, ""))
                         ELSE events
            /\ UNCHANGED <<conn, proc>>
    /\ UNCHANGED <<onlineUsers, rooms, userStore, groupStore, messages, writes,
                   observed, clock, reqs>>

\* socket.on("typing")
Typing(c, i, data, to) == TypingSignal(c, i, data, to, "typing", "user-typing")

\* socket.on("stop-typing")
StopTyping(c, i, data, to) ==
    TypingSignal(c, i, data, to, "stop-typing", "user stop typing ")

\* socket.on("get-user-status"): the answer goes to the asking socket
GetUserStatus(c, i, data, u) ==
    /\ proc = "up"
    /\ conn[c].pc = "ready"
    /\ conn[c].open
    /\ FreeIntent(i)
    /\ IF data = "missing"
       THEN /\ ProcessExit(i, "get-user-status", c)
            /\ UNCHANGED events
       ELSE /\ ops' = [ops EXCEPT ![i] = [FreshOp EXCEPT !.kind = "get-user-status",
                                                         !.c = c, !.stage = "done",
                                                         !.to = u]]
            /\ events' = Log(events, Emit("user-status", "get-user-status", c, i,
                                          SocketEmitTo(c), {u}, 0,
                                          IF PresenceHas(u) THEN "online" ELSE "offline"))
            /\ UNCHANGED <<conn, proc>>
    /\ UNCHANGED <<onlineUsers, rooms, userStore, groupStore, messages, writes,
                   observed, clock, reqs>>

\* GroupTypingSignal emitting with io.to(groupId), the sender included
GroupTypingSignalToAll(c, i, data, g, h, ev) ==
    /\ proc = "up"
    /\ conn[c].pc = "ready"
    /\ conn[c].open
    /\ FreeIntent(i)
    /\ IF data = "missing"
       THEN /\ ProcessExit(i, h, c)
            /\ UNCHANGED events
       ELSE /\ ops' = [ops EXCEPT ![i] = [FreshOp EXCEPT !.kind = h, !.c = c,
                                                         !.stage = "done", !.group = g]]
            /\ events' = Log(events, Emit(ev, h, c, i, IoToRoom(g),
                                          {conn[c].userId}, 0, ""))
            /\ UNCHANGED <<conn, proc>>
    /\ UNCHANGED <<onlineUsers, rooms, userStore, groupStore, messages, writes,
                   observed, clock, reqs>>

\* The body shared by "group-typing" and "group-stop-typing": the payload is
\* destructured in the parameter list; socket.to(groupId) reaches the room
\* without the sending socket.
GroupTypingSignal(c, i, data, g, h, ev) ==
    /\ proc = "up"
    /\ conn[c].pc = "ready"
    /\ conn[c].open
    /\ FreeIntent(i)
    /\ IF data = "missing"
       THEN /\ ProcessExit(i, h, c)
            /\ UNCHANGED events
       ELSE /\ ops' = [ops EXCEPT ![i] = [FreshOp EXCEPT !.kind = h, !.c = c,
                                                         !.stage = "done", !.group = g]]
            /\ events' = Log(events, Emit(ev, h, c, i, IoToRoom(g) \ {c},
                                          {conn[c].userId}, 0, ""))
            /\ UNCHANGED <<conn, proc>>
    /\ UNCHANGED <<onlineUsers, rooms, userStore, groupStore, messages, writes,
                   observed, clock, reqs>>

\* socket.on("group-typing")
GroupTyping(c, i, data, g) ==
    GroupTypingSignal(c, i, data, g, "group-typing", "group-user-typing")

\* socket.on("group-stop-typing")
GroupStopTyping(c, i, data, g) ==
    GroupTypingSignal(c, i, data, g, "group-stop-typing", "group-user-stop-typing")

\* ------------------------------------------------ read-receipt coordinator
\* "mark-read" up to "await Message.updateMany": the filter and the update,
\* with its new Date(), are built before the call.  A missing payload throws
\* inside the try block; the catch block only logs.
MarkRead(c, i, data, s) ==
    /\ proc = "up"
    /\ conn[c].pc = "ready"
    /\ conn[c].open
    /\ FreeIntent(i)
    /\ IF data = "missing"
       THEN /\ ops' = [ops EXCEPT ![i] = [FreshOp EXCEPT !.kind = "mark-read",
                                                         !.c = c, !.stage = "failed"]]
            /\ UNCHANGED clock
       ELSE /\ ops' = [ops EXCEPT ![i] = [FreshOp EXCEPT !.kind = "mark-read",
                                                         !.c = c, !.stage = "update",
                                                         !.to = s, !.at = clock + 1]]
            /\ clock' = clock + 1
    /\ UNCHANGED <<conn, onlineUsers, rooms, userStore, groupStore, messages,
                   writes, events, observed, proc, reqs>>

\* MarkReadApply with a filter that leaves out the receiver
MarkReadApplyAnyReceiver(ms, s, r, at) ==
    {IF m.sender = s /\ ~m.isRead
     THEN [m EXCEPT !.isRead = TRUE, !.readAt = at]
     ELSE m : m \in ms}

\* Message.updateMany({sender: s, receiver: r, isRead: false},
\*                    {isRead: true, readAt: at})
MarkReadApply(ms, s, r, at) ==
    {IF m.sender = s /\ m.receiver = r /\ ~m.isRead
     THEN [m EXCEPT !.isRead = TRUE, !.readAt = at]
     ELSE m : m \in ms}

\* "await Message.updateMany" completes: the sender's socket is looked up in
\* the presence map and told who read; a rejected update is only logged.
MarkReadDone(i, dbOk) ==
    /\ proc = "up"
    /\ ops[i].kind = "mark-read"
    /\ ops[i].stage = "update"
    /\ LET c == ops[i].c
           sid == PresenceGet(ops[i].to)
       IN IF dbOk
          THEN /\ messages' = MarkReadApply(messages, ops[i].to, conn[c].userId,
                                            ops[i].at)
               /\ events' = IF sid # 0
                            THEN Log(events, Emit("messages-read", "mark-read", c, i,
                                                  IoToSocket(sid), {conn[c].userId},
                                                  0, ""))
                            ELSE events
               /\ ops' = [ops EXCEPT ![i].stage = "done"]
          ELSE /\ ops' = [ops EXCEPT ![i].stage = "failed"]
               /\ UNCHANGED <<messages, events>>
    /\ UNCHANGED <<conn, onlineUsers, rooms, userStore, groupStore, writes,
                   observed, clock, proc, reqs>>

FreeReq(r) == reqs[r].kind = "none" /\ \A q \in Reqs : q < r => reqs[q].kind # "none"

\* PUT /read/:userId after authMiddleware has bound req.userId to u, up to
\* "await Message.updateMany"
RestMarkRead(r, u, s) ==
    /\ proc = "up"
    /\ FreeReq(r)
    /\ reqs' = [reqs EXCEPT ![r] = [FreshReq EXCEPT !.kind = "mark-read", !.u = u,
                                                    !.arg = {s}, !.stage = "update",
                                                    !.at = clock + 1]]
    /\ clock' = clock + 1
    /\ UNCHANGED <<conn, onlineUsers, rooms, userStore, groupStore, messages,
                   writes, ops, events, observed, proc>>

\* PUT /read/:userId answers: 200, or 500 when the update was rejected
RestMarkReadDone(r, dbOk) ==
    /\ proc = "up"
    /\ reqs[r].kind = "mark-read"
    /\ reqs[r].stage = "update"
    /\ messages' = IF dbOk
                   THEN UNION {MarkReadApply(messages, s, reqs[r].u, reqs[r].at) :
                                  s \in reqs[r].arg}
                   ELSE messages
    /\ reqs' = [reqs EXCEPT ![r].stage = "done",
                            ![r].status = IF dbOk THEN 200 ELSE 500]
    /\ UNCHANGED <<conn, onlineUsers, rooms, userStore, groupStore, writes, ops,
                   events, observed, clock, proc>>

\* Messages stored before the server started: unread and read direct
\* messages of several pairs and a group message.
SeedMessages ==
    {[id |-> 11, sender |-> "alice", receiver |-> "bob", group |-> NoGroup,
      isRead |-> FALSE, readAt |-> 0],
     [id |-> 12, sender |-> "alice", receiver |-> "bob", group |-> NoGroup,
      isRead |-> TRUE, readAt |-> 1],
     [id |-> 13, sender |-> "bob", receiver |-> "alice", group |-> NoGroup,
      isRead |-> FALSE, readAt |-> 0],
     [id |-> 14, sender |-> "alice", receiver |-> NoUser, group |-> "g1",
      isRead |-> FALSE, readAt |-> 0],
     [id |-> 15, sender |-> "alice", receiver |-> "carol", group |-> NoGroup,
      isRead |-> FALSE, readAt |-> 0]}

\* SpecSignal: sockets of stored users and the typing, group-typing and
\* status signals, each with a present and with a missing payload.
InitSignal == InitStores /\ observed = SignalEvents

NextSignal ==
    \/ \E c \in Conns, t \in Users : proc = "up" /\ AuthStart(c, t)
    \/ \E c \in Conns : proc = "up" /\ AuthResume(c, TRUE)
    \/ \E c \in Conns, ok \in BOOLEAN : proc = "up" /\ ConnectionResume(c, ok)
    \/ \E c \in Conns : proc = "up" /\ Close(c)
    \/ \E c \in Conns, i \in Intents, d \in Destructure, to \in Users \cup {NoUser} :
          Typing(c, i, d, to)
    \/ \E c \in Conns, i \in Intents, d \in Destructure, to \in Users \cup {NoUser} :
          StopTyping(c, i, d, to)
    \/ \E c \in Conns, i \in Intents, d \in Destructure, u \in Users \cup {NoUser} :
          GetUserStatus(c, i, d, u)
    \/ \E c \in Conns, i \in Intents, d \in Destructure, g \in Groups \cup {NoGroup} :
          GroupTyping(c, i, d, g)
    \/ \E c \in Conns, i \in Intents, d \in Destructure, g \in Groups \cup {NoGroup} :
          GroupStopTyping(c, i, d, g)

SpecSignal == InitSignal /\ [][NextSignal]_vars

\* SpecRead: sockets of stored users, one mark-read signal and one request
\* to the REST read endpoint, over the seed messages.
ReadEvents == {"messages-read", "error"}

InitRead ==
    /\ conn = [c \in Conns |-> FreshConn]
    /\ onlineUsers = {}
    /\ rooms = [r \in RoomNames |-> {}]
    /\ userStore = [u \in Users |-> [isOnline |-> FALSE, lastSeen |-> 0]]
    /\ groupStore = [g \in GroupIds |->
                       IF g \in Groups
                       THEN [exists |-> TRUE, members |-> {"alice", "bob"},
                             admins |-> {"alice"}, v |-> 0]
                       ELSE NoDoc]
    /\ messages = SeedMessages
    /\ writes = {}
    /\ ops = [i \in Intents |-> FreshOp]
    /\ events = EmptyBag
    /\ observed = ReadEvents
    /\ clock = 1
    /\ proc = "up"
    /\ reqs = [r \in Reqs |-> FreshReq]

NextRead ==
    \/ \E c \in Conns, t \in Users : AuthStart(c, t)
    \/ \E c \in Conns : AuthResume(c, TRUE)
    \/ \E c \in Conns, ok \in BOOLEAN : ConnectionResume(c, ok)
    \/ \E c \in Conns : Close(c)
    \/ \E c \in Conns, i \in 1..MaxMsgIntents, d \in Destructure,
          s \in Users \cup {NoUser} : MarkRead(c, i, d, s)
    \/ \E i \in 1..MaxMsgIntents, ok \in BOOLEAN : MarkReadDone(i, ok)
    \/ \E r \in 1..MaxSoloReqs, u \in Users, s \in Users : RestMarkRead(r, u, s)
    \/ \E r \in 1..MaxSoloReqs, ok \in BOOLEAN : RestMarkReadDone(r, ok)

SpecRead == InitRead /\ [][NextRead]_vars

\* ---------------------------------------------------- REST group routes
\* The routes of routes/group.js that change a group.  A request starts once
\* authMiddleware has bound req.userId to a stored user.  Request bodies
\* carry well-formed, non-empty, duplicate-free member lists, which
\* validateMembers passes without reading any state.
RestKinds == {"add-members", "remove-member", "leave", "remove-admin", "promote",
              "delete-group"}

\* the middleware of a route that call Group.findById, in order
Chain(kind) ==
    CASE kind = "add-members" -> <<"groupExists", "isGroupAdmin", "checkGroupSizeLimit">>
      [] kind = "remove-member" -> <<"canRemoveMember">>
      [] kind = "leave" -> <<"groupExists", "isGroupMember">>
      [] kind = "remove-admin" -> <<"groupExists", "isGroupAdmin",
                                    "preventLastAdminRemoval">>
      [] kind = "promote" -> <<"groupExists", "isGroupAdmin", "canPromoteToAdmin">>
      [] kind = "delete-group" -> <<"groupExists", "isGroupAdmin">>
      [] kind = "group-message" -> <<"groupExists", "isGroupMember">>

\* Group.findById(g): the stored document, or null
FindGroup(g) == IF GroupFound(g) THEN groupStore[g] ELSE NoDoc

\* Each middleware answers with a status, or calls next() (0), on the
\* document d it has just read.
groupExists(d) == IF ~d.exists THEN 404 ELSE 0

isGroupMember(d, u) ==
    IF ~d.exists THEN 404 ELSE IF u \notin d.members THEN 403 ELSE 0

isGroupAdmin(d, u) ==
    IF ~d.exists THEN 404 ELSE IF u \notin d.admins THEN 403 ELSE 0

canRemoveMember(d, u, memberId) ==
    IF ~d.exists THEN 404
    ELSE IF u \notin d.admins THEN 403
    ELSE IF memberId \notin d.members THEN 400
    ELSE IF memberId \in d.admins THEN 400
    ELSE 0

preventLastAdminRemoval(d, memberId) ==
    IF ~d.exists THEN 404
    ELSE IF Cardinality(d.admins) = 1 /\ memberId \in d.admins THEN 400
    ELSE 0

canPromoteToAdmin(d, memberId) ==
    IF ~d.exists THEN 404
    ELSE IF memberId \notin d.members THEN 400
    ELSE IF memberId \in d.admins THEN 400
    ELSE 0

checkGroupSizeLimit(d, members) ==
    IF ~d.exists THEN 404
    ELSE IF Cardinality(d.members) + Cardinality(members) > MAX_GROUP_SIZE THEN 400
    ELSE 0

\* req.params.memberId of the routes that name one member
MemberId(r) == CHOOSE m \in reqs[r].arg : TRUE

RunMiddleware(name, r, d) ==
    CASE name = "groupExists" -> groupExists(d)
      [] name = "isGroupMember" -> isGroupMember(d, reqs[r].u)
      [] name = "isGroupAdmin" -> isGroupAdmin(d, reqs[r].u)
      [] name = "canRemoveMember" -> canRemoveMember(d, reqs[r].u, MemberId(r))
      [] name = "preventLastAdminRemoval" -> preventLastAdminRemoval(d, MemberId(r))
      [] name = "canPromoteToAdmin" -> canPromoteToAdmin(d, MemberId(r))
      [] name = "checkGroupSizeLimit" -> checkGroupSizeLimit(d, reqs[r].arg)

\* a request arrives and its first middleware issues Group.findById
RestBegin(r, kind, u, g, arg) ==
    /\ proc = "up"
    /\ FreeReq(r)
    /\ reqs' = [reqs EXCEPT ![r] = [FreshReq EXCEPT !.kind = kind, !.u = u,
                                                    !.group = g, !.arg = arg,
                                                    !.stage = "chain", !.mw = 1]]
    /\ UNCHANGED <<conn, onlineUsers, rooms, userStore, groupStore, messages,
                   writes, ops, events, observed, clock, proc>>

Answer(r, code) ==
    [reqs EXCEPT ![r].stage = "done", ![r].status = code, ![r].doc = NoDoc]

\* POST /:groupId/messages arrives: req.body.content is a string or missing
\* (the empty string stands for both)
RestPostMessage(r, u, g, content) ==
    /\ proc = "up"
    /\ FreeReq(r)
    /\ reqs' = [reqs EXCEPT ![r] = [FreshReq EXCEPT !.kind = "group-message", !.u = u,
                                                    !.group = g, !.content = content,
                                                    !.stage = "chain", !.mw = 1]]
    /\ UNCHANGED <<conn, onlineUsers, rooms, userStore, groupStore, messages,
                   writes, ops, events, observed, clock, proc>>

\* what a route handler answers before its first await, or 0: the group
\* message route answers 400 to an empty content
HandlerAnswer(r) ==
    IF reqs[r].kind = "group-message" /\ reqs[r].content = "" THEN 400 ELSE 0

\* the first await of the route handler, reached with req.group = d: the
\* leave and delete routes go to Message.deleteMany when no member would
\* remain, every other path goes to req.group.save()
HandlerStage(r, d) ==
    IF reqs[r].kind = "delete-group" THEN "deleteMessages"
    ELSE IF reqs[r].kind = "group-message" THEN "saveMessage"
    ELSE IF reqs[r].kind = "leave" /\ d.members \ {reqs[r].u} = {}
    THEN "deleteMessages"
    ELSE "save"

\* "await Group.findById" of the request's current middleware completes: the
\* middleware answers, or attaches the document and calls next(); after the
\* last middleware the route handler runs up to its first await.  A failed
\* lookup is answered 500.
RestMiddleware(r, dbOk) ==
    /\ proc = "up"
    /\ reqs[r].stage = "chain"
    /\ LET chain == Chain(reqs[r].kind)
           d == FindGroup(reqs[r].group)
           code == IF dbOk THEN RunMiddleware(chain[reqs[r].mw], r, d) ELSE 500
       IN reqs' = IF code # 0 THEN Answer(r, code)
                  ELSE IF reqs[r].mw < Len(chain)
                  THEN [reqs EXCEPT ![r].mw = @ + 1, ![r].doc = d]
                  ELSE IF HandlerAnswer(r) # 0 THEN Answer(r, HandlerAnswer(r))
                  ELSE [reqs EXCEPT ![r].stage = HandlerStage(r, d), ![r].doc = d]
    /\ UNCHANGED <<conn, onlineUsers, rooms, userStore, groupStore, messages,
                   writes, ops, events, observed, clock, proc>>

\* The document the route handler has built from req.group when it calls
\* save().  The leave route makes the first remaining member admin when no
\* admin remains; members is a set here, so first is any remaining member.
Edited(r, first) ==
    LET d == reqs[r].doc
        u == reqs[r].u
    IN CASE reqs[r].kind = "add-members" -> [d EXCEPT !.members = @ \cup reqs[r].arg]
         [] reqs[r].kind = "remove-member" -> [d EXCEPT !.members = @ \ reqs[r].arg]
         [] reqs[r].kind = "remove-admin" -> [d EXCEPT !.admins = @ \ reqs[r].arg]
         [] reqs[r].kind = "promote" -> [d EXCEPT !.admins = @ \cup reqs[r].arg]
         [] reqs[r].kind = "leave" ->
               [d EXCEPT !.members = @ \ {u},
                         !.admins = IF d.admins \ {u} = {} THEN {first}
                                                           ELSE d.admins \ {u}]

\* the choices of the first remaining member
Firsts(r) ==
    IF reqs[r].kind = "leave" /\ reqs[r].doc.admins \ {reqs[r].u} = {}
    THEN reqs[r].doc.members \ {reqs[r].u}
    ELSE {NoUser}

\* save() of an edited document.  Elements pushed onto an array are sent as
\* $push and the version is incremented without being compared; an array
\* that was assigned is sent as $set guarded by the version the document
\* was read with; a document without changes writes nothing.  No matching
\* document rejects the save.
SaveWrite(r, e) ==
    LET d == reqs[r].doc
        g == reqs[r].group
        cur == groupStore[g]
    IN IF reqs[r].kind \in {"add-members", "promote"}
       THEN [groupStore EXCEPT ![g] = [cur EXCEPT
                                         !.members = @ \cup (e.members \ d.members),
                                         !.admins = @ \cup (e.admins \ d.admins),
                                         !.v = @ + 1]]
       ELSE [groupStore EXCEPT ![g] = [e EXCEPT !.v = @ + 1]]

SaveAccepted(r, e) ==
    /\ GroupFound(reqs[r].group)
    /\ \/ reqs[r].kind \in {"add-members", "promote"}
       \/ groupStore[reqs[r].group].v = reqs[r].doc.v

\* "await req.group.save()" completes; the populates that follow in four of
\* the routes write nothing and only turn the answer into a 500 when they
\* reject.
RestSave(r, dbOk, popOk) ==
    /\ proc = "up"
    /\ reqs[r].stage = "save"
    /\ \E first \in Firsts(r) :
          LET e == Edited(r, first) IN
          IF e = reqs[r].doc
          THEN /\ UNCHANGED groupStore
               /\ reqs' = Answer(r, IF dbOk /\ GroupFound(reqs[r].group) /\ popOk
                                    THEN 200 ELSE 500)
          ELSE IF dbOk /\ SaveAccepted(r, e)
          THEN /\ groupStore' = SaveWrite(r, e)
               /\ reqs' = Answer(r, IF popOk \/ reqs[r].kind = "leave"
                                    THEN 200 ELSE 500)
          ELSE /\ UNCHANGED groupStore
               /\ reqs' = Answer(r, 500)
    /\ UNCHANGED <<conn, onlineUsers, rooms, userStore, messages, writes, ops,
                   events, observed, clock, proc>>

\* "await Message.deleteMany({group})" of the leave and delete routes
RestDeleteMessages(r, dbOk) ==
    /\ proc = "up"
    /\ reqs[r].stage = "deleteMessages"
    /\ IF dbOk
       THEN /\ messages' = {m \in messages : m.group # reqs[r].group}
            /\ reqs' = [reqs EXCEPT ![r].stage = "deleteGroup"]
       ELSE /\ UNCHANGED messages
            /\ reqs' = Answer(r, 500)
    /\ UNCHANGED <<conn, onlineUsers, rooms, userStore, groupStore, writes, ops,
                   events, observed, clock, proc>>

\* "await Group.findByIdAndDelete(groupId)" of the leave and delete routes
RestDeleteGroup(r, dbOk) ==
    /\ proc = "up"
    /\ reqs[r].stage = "deleteGroup"
    /\ IF dbOk
       THEN /\ groupStore' = [groupStore EXCEPT ![reqs[r].group] = NoDoc]
            /\ reqs' = Answer(r, 200)
       ELSE /\ UNCHANGED groupStore
            /\ reqs' = Answer(r, 500)
    /\ UNCHANGED <<conn, onlineUsers, rooms, userStore, messages, writes, ops,
                   events, observed, clock, proc>>

\* new Message({sender, group, content}) of the group message route
RestNewMessage(r) ==
    [id |-> 20 + r, sender |-> reqs[r].u, receiver |-> NoUser,
     group |-> reqs[r].group, isRead |-> FALSE, readAt |-> 0]

\* "await message.save()" of the group message route completes; the populate
\* that follows writes nothing and turns the answer into a 500 when it
\* rejects.  Nothing looks the group up again.
RestSaveMessage(r, dbOk, popOk) ==
    /\ proc = "up"
    /\ reqs[r].stage = "saveMessage"
    /\ IF dbOk
       THEN /\ messages' = messages \cup {RestNewMessage(r)}
            /\ reqs' = Answer(r, IF popOk THEN 201 ELSE 500)
       ELSE /\ UNCHANGED messages
            /\ reqs' = Answer(r, 500)
    /\ UNCHANGED <<conn, onlineUsers, rooms, userStore, groupStore, writes, ops,
                   events, observed, clock, proc>>

\* A group with two or three members and one admin, and one stored message
\* of that group; no socket, no request.
InitRest ==
    /\ conn = [c \in Conns |-> FreshConn]
    /\ onlineUsers = {}
    /\ rooms = [r \in RoomNames |-> {}]
    /\ userStore = [u \in Users |-> [isOnline |-> FALSE, lastSeen |-> 0]]
    /\ \E m \in {{"alice", "bob"}, Users} :
          groupStore = [g \in GroupIds |->
                          IF g \in Groups
                          THEN [exists |-> TRUE, members |-> m, admins |-> {"alice"},
                                v |-> 0]
                          ELSE NoDoc]
    /\ messages = {m \in SeedMessages : m.group # NoGroup}
    /\ writes = {}
    /\ ops = [i \in Intents |-> FreshOp]
    /\ events = EmptyBag
    /\ observed = {}
    /\ clock = 0
    /\ proc = "up"
    /\ reqs = [r \in Reqs |-> FreshReq]

\* SpecRest: the REST routes that change a group, two requests in flight at
\* a time, every store call succeeding or failing.
NextRest ==
    \/ \E r \in Reqs, u \in Users, g \in Groups, m \in Ids :
          \/ RestBegin(r, "add-members", u, g, {m})
          \/ RestBegin(r, "remove-member", u, g, {m})
          \/ RestBegin(r, "remove-admin", u, g, {m})
          \/ RestBegin(r, "promote", u, g, {m})
    \/ \E r \in Reqs, u \in Users, g \in Groups :
          \/ RestBegin(r, "leave", u, g, {})
          \/ RestBegin(r, "delete-group", u, g, {})
    \/ \E r \in Reqs, ok \in BOOLEAN : RestMiddleware(r, ok)
    \/ \E r \in Reqs, ok \in BOOLEAN, pop \in BOOLEAN : RestSave(r, ok, pop)
    \/ \E r \in Reqs, ok \in BOOLEAN : RestDeleteMessages(r, ok)
    \/ \E r \in Reqs, ok \in BOOLEAN : RestDeleteGroup(r, ok)

SpecRest == InitRest /\ [][NextRest]_vars

\* ------------------------------------------------- REST group creation
\* req.body.name of POST /: missing or blank, two characters, four characters
RestNames == {"", "ab", "team"}

\* name.trim().length
NameLength(name) == CASE name = "" -> 0 [] name = "ab" -> 2 [] OTHER -> 4

\* validateGroupData: the status it answers, or 0 when it calls next().
\* data tells whether req.body.members is an array, missing or something
\* else; a missing members field passes here.
validateGroupData(name, data, members) ==
    IF NameLength(name) = 0 THEN 400
    ELSE IF NameLength(name) < 3 THEN 400
    ELSE IF NameLength(name) > 50 THEN 400
    ELSE IF data = "not-array" THEN 400
    ELSE IF data = "ok" /\ members = {} THEN 400
    ELSE 0

\* validateMembers: members must be a non-empty array of well-formed ids
\* without duplicates.  Every id of Ids is well formed and a set has no
\* duplicates; no user is looked up and no size is compared.
validateMembers(data, members) ==
    IF data # "ok" THEN 400
    ELSE IF members = {} THEN 400
    ELSE 0

\* POST / after authMiddleware has bound req.userId to u: both validators
\* run without suspending, then the handler runs up to "await Group.create"
RestCreate(r, u, data, name, members) ==
    /\ proc = "up"
    /\ FreeReq(r)
    /\ LET code == IF validateGroupData(name, data, members) # 0
                   THEN validateGroupData(name, data, members)
                   ELSE validateMembers(data, members)
       IN reqs' = [reqs EXCEPT ![r] =
                     IF code # 0
                     THEN [FreshReq EXCEPT !.kind = "create-group", !.u = u,
                                           !.stage = "done", !.status = code]
                     ELSE [FreshReq EXCEPT !.kind = "create-group", !.u = u,
                                           !.arg = members, !.content = name,
                                           !.stage = "create"]]
    /\ UNCHANGED <<conn, onlineUsers, rooms, userStore, groupStore, messages,
                   writes, ops, events, observed, clock, proc>>

\* the document of Group.create({name, members: [...members, req.userId],
\* admins: [req.userId]})
RestNewGroup(r) ==
    [exists |-> TRUE, members |-> reqs[r].arg \cup {reqs[r].u},
     admins |-> {reqs[r].u}, v |-> 0]

\* "await Group.create" of POST / completes: the store gives the document an
\* unused id; the populates that follow write nothing and turn the answer
\* into a 500 when they reject.
RestCreateDone(r, dbOk, popOk) ==
    /\ proc = "up"
    /\ reqs[r].stage = "create"
    /\ IF dbOk
       THEN \E g \in NewGroups :
              /\ ~groupStore[g].exists
              /\ groupStore' = [groupStore EXCEPT ![g] = RestNewGroup(r)]
              /\ reqs' = [Answer(r, IF popOk THEN 201 ELSE 500) EXCEPT ![r].group = g]
       ELSE /\ UNCHANGED groupStore
            /\ reqs' = Answer(r, 500)
    /\ UNCHANGED <<conn, onlineUsers, rooms, userStore, messages, writes, ops,
                   events, observed, clock, proc>>

\* the member arrays of the creation requests: empty, one user, and every
\* other id, which with the creator is one more than MAX_GROUP_SIZE
MemberLists == {{}, {"bob"}, {"bob", "carol", Ghost}}

\* the users that open sockets in SpecCeiling
Creators == {"alice", "bob"}

\* SpecCeiling: the three ways a group gets members: one create-group
\* signal, and one REST request that creates a group or adds a member.
NextCeiling ==
    \/ \E c \in Conns, t \in Creators : AuthStart(c, t)
    \/ \E c \in Conns : AuthResume(c, TRUE)
    \/ \E c \in Conns : ConnectionResume(c, TRUE)
    \/ \E c \in Conns : Close(c)
    \/ \E c \in Conns, i \in 1..MaxMsgIntents, d \in CreateData, n \in Names,
          ms \in MemberLists : CreateGroup(c, i, d, n, ms)
    \/ \E i \in 1..MaxMsgIntents, ok \in BOOLEAN : CreateDone(i, ok)
    \/ \E i \in 1..MaxMsgIntents, ok \in BOOLEAN : CreatePopulateDone(i, ok)
    \/ \E r \in 1..MaxSoloReqs, u \in Users, d \in CreateData, n \in RestNames,
          ms \in MemberLists : RestCreate(r, u, d, n, ms)
    \/ \E r \in 1..MaxSoloReqs, ok \in BOOLEAN, pop \in BOOLEAN : RestCreateDone(r, ok, pop)
    \/ \E r \in 1..MaxSoloReqs, u \in Users, g \in GroupIds, m \in Ids :
          RestBegin(r, "add-members", u, g, {m})
    \/ \E r \in 1..MaxSoloReqs, ok \in BOOLEAN : RestMiddleware(r, ok)
    \/ \E r \in 1..MaxSoloReqs, ok \in BOOLEAN, pop \in BOOLEAN : RestSave(r, ok, pop)

SpecCeiling == InitRest /\ [][NextCeiling]_vars

\* SpecCreate: sockets of stored users and one create-group signal.
NextCreate ==
    \/ \E c \in Conns, t \in Users : AuthStart(c, t)
    \/ \E c \in Conns : AuthResume(c, TRUE)
    \/ \E c \in Conns, ok \in BOOLEAN : ConnectionResume(c, ok)
    \/ \E c \in Conns : Close(c)
    \/ \E c \in Conns, i \in 1..MaxMsgIntents, d \in CreateData, n \in Names,
          ms \in SUBSET Ids : CreateGroup(c, i, d, n, ms)
    \/ \E i \in 1..MaxMsgIntents, ok \in BOOLEAN : CreateDone(i, ok)
    \/ \E i \in 1..MaxMsgIntents, ok \in BOOLEAN : CreatePopulateDone(i, ok)

InitCreate == InitStores /\ observed = CreateEvents

SpecCreate == InitCreate /\ [][NextCreate]_vars

\* SpecDelete: one socket send-group-message and one REST request that posts
\* a group message, leaves the group or deletes it.
NextDelete ==
    \/ \E c \in Conns, t \in Users : AuthStart(c, t)
    \/ \E c \in Conns : AuthResume(c, TRUE)
    \/ \E c \in Conns : ConnectionResume(c, TRUE)
    \/ \E c \in Conns : Close(c)
    \/ \E c \in Conns, i \in 1..MaxMsgIntents, g \in Groups, x \in Contents :
          SendGroupMessage(c, i, "ok", g, x)
    \/ \E i \in 1..MaxMsgIntents, ok \in BOOLEAN : FindGroupDone(i, ok)
    \/ \E i \in 1..MaxMsgIntents, ok \in BOOLEAN : SaveDone(i, ok)
    \/ \E i \in 1..MaxMsgIntents, ok \in BOOLEAN : PopulateDone(i, ok)
    \/ \E r \in 1..MaxSoloReqs, u \in Users, g \in Groups, x \in Contents :
          RestPostMessage(r, u, g, x)
    \/ \E r \in 1..MaxSoloReqs, u \in Users, g \in Groups :
          \/ RestBegin(r, "leave", u, g, {})
          \/ RestBegin(r, "delete-group", u, g, {})
    \/ \E r \in 1..MaxSoloReqs, ok \in BOOLEAN : RestMiddleware(r, ok)
    \/ \E r \in 1..MaxSoloReqs, ok \in BOOLEAN, pop \in BOOLEAN : RestSave(r, ok, pop)
    \/ \E r \in 1..MaxSoloReqs, ok \in BOOLEAN, pop \in BOOLEAN : RestSaveMessage(r, ok, pop)
    \/ \E r \in 1..MaxSoloReqs, ok \in BOOLEAN : RestDeleteMessages(r, ok)
    \/ \E r \in 1..MaxSoloReqs, ok \in BOOLEAN : RestDeleteGroup(r, ok)

SpecDelete == InitRest /\ [][NextDelete]_vars

\* SpecRooms: sockets of stored users with their rooms, one socket
\* leave-group signal and one REST request that changes the group.
NextRooms ==
    \/ \E c \in Conns, t \in Users : AuthStart(c, t)
    \/ \E c \in Conns : AuthResume(c, TRUE)
    \/ \E c \in Conns : ConnectionResume(c, TRUE)
    \/ \E c \in Conns : Close(c)
    \/ \E c \in Conns, i \in 1..MaxMsgIntents, g \in Groups : LeaveGroup(c, i, "ok", g)
    \/ \E i \in 1..MaxMsgIntents, ok \in BOOLEAN : LeaveGroupDone(i, ok)
    \/ \E r \in 1..MaxSoloReqs, u \in Users, g \in Groups, m \in Ids :
          \/ RestBegin(r, "add-members", u, g, {m})
          \/ RestBegin(r, "remove-member", u, g, {m})
          \/ RestBegin(r, "remove-admin", u, g, {m})
          \/ RestBegin(r, "promote", u, g, {m})
    \/ \E r \in 1..MaxSoloReqs, u \in Users, g \in Groups :
          \/ RestBegin(r, "leave", u, g, {})
          \/ RestBegin(r, "delete-group", u, g, {})
    \/ \E r \in 1..MaxSoloReqs, ok \in BOOLEAN : RestMiddleware(r, ok)
    \/ \E r \in 1..MaxSoloReqs, ok \in BOOLEAN, pop \in BOOLEAN : RestSave(r, ok, pop)
    \/ \E r \in 1..MaxSoloReqs, ok \in BOOLEAN : RestDeleteMessages(r, ok)
    \/ \E r \in 1..MaxSoloReqs, ok \in BOOLEAN : RestDeleteGroup(r, ok)

SpecRooms == InitRest /\ [][NextRooms]_vars

\* ------------------------------------------- properties of the signals
\* C11: whatever payload a signal handler receives, a missing one included,
\* an error in it leaves the process running and ends in exactly one error
\* event, emitted by the originating socket's handler and reaching no other
\* socket.
C11_HandlerErrorsStayScoped ==
    /\ proc = "up"
    /\ \A i \in Intents :
          ops[i].stage \in {"failed", "crashed"} =>
             /\ NumEmits(events, "error", i) = 1
             /\ \A e \in EmitsOf(events, "error", i) :
                   e.src = ops[i].c /\ e.rcpts \subseteq {ops[i].c}

\* C12: a connected socket is in the room of a group only if the stored
\* group lists the socket's user as a member.
C12_RoomOnlyForStoredMembers ==
    \A g \in Groups : \A c \in rooms[g] \cap Connected :
        groupStore[g].exists /\ conn[c].userId \in groupStore[g].members

\* this step's effect on the message store is that of reader r marking the
\* messages of sender s as read: the unread messages s sent to r become read
\* with a read time that was handed out, every other message is unchanged
MarksRead(s, r) ==
    /\ {m.id : m \in messages'} = {m.id : m \in messages}
    /\ Cardinality(messages') = Cardinality(messages)
    /\ \A m \in messages : \E n \in messages' :
          /\ n.id = m.id
          /\ IF m.sender = s /\ m.receiver = r /\ ~m.isRead
             THEN /\ n.isRead
                  /\ n.readAt > 0
                  /\ n.readAt <= clock
                  /\ [n EXCEPT !.isRead = FALSE, !.readAt = 0] = m
             ELSE n = m

\* C13: a mark-read of reader R for sender S that completes, by the socket
\* signal or by PUT /read/:userId, sets the read flag and a read time on
\* every stored message with sender S, receiver R and read flag false, and
\* changes no other message; one that fails changes no message.
C13_MarkReadTouchesOnlyThePair ==
    [][/\ \A i \in Intents :
            (ops[i].kind = "mark-read" /\ ops[i].stage = "update")
            => /\ ops'[i].stage = "done" => MarksRead(ops[i].to, conn[ops[i].c].userId)
               /\ ops'[i].stage = "failed" => messages' = messages
       /\ \A r \in Reqs :
            (reqs[r].kind = "mark-read" /\ reqs[r].stage = "update")
            => /\ reqs'[r].status = 200 =>
                     \A s \in reqs[r].arg : MarksRead(s, reqs[r].u)
               /\ reqs'[r].status = 500 => messages' = messages]_vars

\* bob has marked alice's messages as read over the socket: the unread
\* message from alice to bob is read and stamped, the one bob had read
\* before keeps its time, alice's messages to carol and to the group and
\* bob's message to alice are still unread
C13_Witness ==
    /\ \E i \in Intents : /\ ops[i].kind = "mark-read"
                          /\ ops[i].stage = "done"
                          /\ ops[i].to = "alice"
                          /\ conn[ops[i].c].userId = "bob"
    /\ \E m \in messages : m.id = 11 /\ m.isRead /\ m.readAt > 1
    /\ \E m \in messages : m.id = 12 /\ m.isRead /\ m.readAt = 1
    /\ \A m \in messages : m.id \in {13, 14, 15} => ~m.isRead /\ m.readAt = 0

\* C14: when the update of a mark-read by R for S completes and S has a
\* presence entry, exactly one messages-read naming R is emitted and reaches
\* the socket registered for S, however many messages were updated; when S
\* has no presence entry nothing is emitted and no unread message from S to
\* R remains.
C14_OneReadReceiptToTheSender ==
    [][\A i \in Intents :
         (ops[i].kind = "mark-read" /\ ops[i].stage = "update" /\ ops'[i].stage = "done")
         => LET s == ops[i].to
                r == conn[ops[i].c].userId
            IN /\ PresenceHas(s) =>
                     /\ NumEmits(events', "messages-read", i) = 1
                     /\ DeliveredTo(events', "messages-read", i, PresenceGet(s)) = 1
                     /\ \A e \in EmitsOf(events', "messages-read", i) :
                           e.users = {r} /\ e.rcpts = {PresenceGet(s)}
               /\ ~PresenceHas(s) =>
                     /\ NumEmits(events', "messages-read", i) = 0
                     /\ \A m \in messages' :
                           (m.sender = s /\ m.receiver = r) => m.isRead]_vars

\* C15: every connection-success is emitted once per handshake, carries the
\* user of the new socket and reaches no socket but that one, so no socket
\* receives connection-success more than once.
C15_ConnectionSuccessIsPrivate ==
    /\ \A e \in BagToSet(events) :
          e.ev = "connection-success" =>
             /\ events[e] = 1
             /\ e.users = {conn[e.src].userId}
             /\ e.rcpts \subseteq {e.src}
    /\ \A c \in Conns : DeliveredTo(events, "connection-success", 0, c) <= 1

\* C16: every stored message has exactly one of receiver and group set.
C16_ReceiverXorGroup ==
    \A m \in messages : (m.receiver = NoUser) <=> (m.group # NoGroup)

\* C17: an add-members request whose members would take the stored
\* membership above MAX_GROUP_SIZE writes nothing: the step that ends it
\* leaves the group as stored, whatever other requests are in flight, and a
\* request answered by the size check has changed nothing.
C17_AddMembersNeverExceedsCeiling ==
    [][\A r \in Reqs :
         (/\ reqs[r].kind = "add-members"
          /\ reqs[r].stage \in {"chain", "save"}
          /\ reqs'[r].stage = "done"
          /\ groupStore[reqs[r].group].exists
          /\ Cardinality(groupStore[reqs[r].group].members \cup reqs[r].arg)
                > MAX_GROUP_SIZE)
         => groupStore' = groupStore]_vars

\* C18: a stored group with a member has an admin; a request to remove the
\* admin role that ends while its target is the only admin is not answered
\* 200 and leaves the admins as they were; and when the only admin stops
\* being a member while other members remain, one of the remaining members
\* is an admin afterwards.
C18_SoleAdminIsKeptOrReplaced ==
    /\ [](\A g \in Groups :
             (groupStore[g].exists /\ groupStore[g].members # {})
             => groupStore[g].admins # {})
    /\ [][\A g \in Groups :
            /\ \A r \in Reqs :
                  (/\ reqs[r].kind = "remove-admin"
                   /\ reqs[r].group = g
                   /\ reqs[r].stage # "done"
                   /\ reqs'[r].stage = "done"
                   /\ groupStore[g].exists
                   /\ groupStore[g].admins = reqs[r].arg)
                  => /\ groupStore'[g].admins = groupStore[g].admins
                     /\ reqs'[r].status # 200
            /\ (/\ groupStore[g].exists
                /\ groupStore'[g].exists
                /\ groupStore'[g].members # {}
                /\ \E a \in groupStore[g].members :
                      groupStore[g].admins = {a} /\ a \notin groupStore'[g].members)
               => groupStore'[g].admins \cap groupStore'[g].members # {}]_vars

\* C19: no stored group has zero members, and every stored group message
\* belongs to a stored group.
C19_NoEmptyGroupRemains ==
    /\ \A g \in Groups : groupStore[g].exists => groupStore[g].members # {}
    /\ \A m \in messages : m.group # NoGroup => groupStore[m.group].exists

\* C20: a typing or stop-typing signal for a receiver with a presence entry
\* emits its event once and the event reaches the socket registered for the
\* receiver; for a receiver without an entry the handler emits nothing, no
\* error included; in both cases no store is written and no store call is
\* left pending.
C20_TypingReachesRegisteredSocketOrIsDropped ==
    [][\A i \in Intents :
         (/\ ops[i].kind = "none"
          /\ ops'[i].kind \in {"typing", "stop-typing"}
          /\ ops'[i].stage = "done")
         => LET to == ops'[i].to
                ev == IF ops'[i].kind = "typing" THEN "user-typing"
                                                 ELSE "user stop typing "
            IN /\ PresenceHas(to) =>
                     /\ NumEmits(events', ev, i) = 1
                     /\ DeliveredTo(events', ev, i, PresenceGet(to)) = 1
                     /\ \A e \in BagToSet(events') : e.id = i => e.ev = ev
               /\ ~PresenceHas(to) => events' = events
               /\ messages' = messages
               /\ userStore' = userStore
               /\ groupStore' = groupStore
               /\ writes' = writes]_vars

\* C21: a group-typing or group-stop-typing signal for a group emits its
\* event once; every connected socket in the room of the group other than
\* the sender receives it exactly once, and neither the sender nor a socket
\* outside the room receives it.
C21_GroupTypingReachesTheOthers ==
    [][\A i \in Intents :
         (/\ ops[i].kind = "none"
          /\ ops'[i].kind \in {"group-typing", "group-stop-typing"}
          /\ ops'[i].stage = "done"
          /\ ops'[i].group \in Groups)
         => LET ev == IF ops'[i].kind = "group-typing"
                      THEN "group-user-typing" ELSE "group-user-stop-typing"
                g == ops'[i].group
                c == ops'[i].c
            IN /\ NumEmits(events', ev, i) = 1
               /\ \A e \in BagToSet(events') : e.id = i => e.ev = ev
               /\ \A d \in Conns :
                     DeliveredTo(events', ev, i, d) =
                        IF d \in (rooms[g] \cap Connected) \ {c} THEN 1 ELSE 0]_vars

\* a group-typing of a socket that sits in the room itself has reached
\* another socket of the room and not the sender
C21_Witness ==
    \E e \in BagToSet(events) :
        /\ e.ev = "group-user-typing"
        /\ e.src \in rooms["g1"]
        /\ e.rcpts # {}
        /\ e.src \notin e.rcpts

\* C23: the connection handler of a socket of u makes the presence entry of
\* u name that socket; when a socket of u that the entry does not name
\* disconnects while the named socket is connected, the entry still names
\* the connected socket afterwards.
C23_OlderSocketLeavesEntryAlone ==
    [][\A c \in Conns :
         /\ (conn[c].userId = NoUser /\ conn'[c].userId # NoUser)
               => <<conn'[c].userId, c>> \in onlineUsers'
         /\ (conn[c].userId # NoUser /\ conn[c].open /\ ~conn'[c].open)
               => \A d \in Connected \ {c} :
                     <<conn[c].userId, d>> \in onlineUsers
                     => <<conn[c].userId, d>> \in onlineUsers']_vars

\* C24: the presence map and the rooms are changed only by the part of a
\* handler that runs before its first store call: the step that resumes the
\* connection handler after Group.find, the step that resumes leave-group
\* after its update and the step that resumes the disconnect listener after
\* its write leave both as they were.
C24_NoMutationAfterResume ==
    [][/\ \A c \in Conns :
            \/ conn[c].pc = "loading" /\ conn'[c].pc = "ready"
            \/ conn[c].dh = "writing" /\ conn'[c].dh # "writing"
            => rooms' = rooms /\ onlineUsers' = onlineUsers
       /\ \A i \in Intents :
            (ops[i].stage \notin {"none", "done", "failed"} /\ ops'[i].stage # ops[i].stage)
            => rooms' = rooms /\ onlineUsers' = onlineUsers]_vars

\* C25: when a message handler ends after its socket has closed and its
\* save has completed, the message stays stored, no event of the intent
\* reaches the closed socket, a direct receiver with a connected socket
\* receives receive-message exactly once, and every other connected socket
\* of the group's room receives the group delivery exactly once.
C25_ClosedSenderStillDelivers ==
    [][\A i \in Intents :
         (/\ ops[i].kind \in {"direct", "group"}
          /\ ops[i].stage \notin {"done", "failed"}
          /\ ops'[i].stage \in {"done", "failed"}
          /\ ~conn[ops[i].c].open
          /\ \E m \in messages : m.id = i)
         => LET c == ops[i].c IN
            /\ \E m \in messages' : m.id = i
            /\ \A e \in BagToSet(events') : e.id = i => c \notin e.rcpts
            /\ (ops[i].kind = "direct" /\ LiveSocketsOf(ops[i].to) # {})
                  => \E d \in LiveSocketsOf(ops[i].to) :
                        DeliveredTo(events', "receive-message", i, d) = 1
            /\ ops[i].kind = "group"
                  => \A d \in (rooms[ops[i].group] \cap Connected) \ {c} :
                        DeliveredTo(events', "receive-group-messsage", i, d) = 1]_vars

\* C26: an event that a group-typing, group-stop-typing or
\* send-group-message signal delivers to a socket of the room of a group
\* comes from a socket whose user the stored group lists as a member.
C26_OnlyMembersReachTheRoom ==
    [][\A i \in Intents :
         (/\ ops'[i].kind \in {"group-typing", "group-stop-typing", "group"}
          /\ ops'[i].group \in Groups
          /\ \E e \in BagToSet(events') :
                e.id = i /\ e.rcpts # {} /\ e.ev # "error" /\ CopiesIn(e, events') # CopiesIn(e, events))
         => /\ groupStore[ops'[i].group].exists
            /\ conn[ops'[i].c].userId \in groupStore[ops'[i].group].members]_vars

\* C28: every admin of a stored group is a member of it.
C28_AdminsAreMembers ==
    \A g \in Groups :
        groupStore[g].exists => groupStore[g].admins \subseteq groupStore[g].members

\* C29: when no socket is inside the middleware or the connection handler
\* and every isOnline write that was issued has been applied, the stored
\* isOnline flag of every user is true exactly when the presence map has an
\* entry for the user, in whichever order the writes were applied.
C29_IsOnlineConvergesToPresence ==
    (/\ writes = {}
     /\ \A c \in Conns : conn[c].pc \notin {"auth", "loading"})
    => \A u \in Users : userStore[u].isOnline <=> PresenceHas(u)

\* C30: every stored message that names a group names a group that is
\* stored.
C30_NoMessageOfADeletedGroup ==
    \A m \in messages : m.group \in Groups => groupStore[m.group].exists

\* C22: when create-group ends with its joins done, the creator's socket is
\* in the room of the new group, the socket that the presence map names for
\* a listed member is in the room, and the user of every socket in the room
\* is a member of the stored group.
C22_CreateGroupJoinsThePresentMembers ==
    [][\A i \in Intents :
         (ops[i].kind = "create-group" /\ ops[i].stage = "pop2" /\ ops'[i].stage = "done")
         => LET g == ops[i].group IN
            /\ ops[i].c \in rooms'[g]
            /\ \A m \in ops[i].members : PresenceHas(m) => PresenceGet(m) \in rooms'[g]
            /\ \A d \in rooms'[g] :
                  /\ groupStore'[g].exists
                  /\ conn[d].userId \in groupStore'[g].members]_vars

\* C27: when create-group ends with its joins done, every connected socket
\* in the room of the new group has received group-created exactly once and
\* no other socket has received it.
C27_GroupCreatedExactlyOnce ==
    [][\A i \in Intents :
         (ops[i].kind = "create-group" /\ ops[i].stage = "pop2" /\ ops'[i].stage = "done")
         => \A d \in Conns :
               DeliveredTo(events', "group-created", i, d) =
                  IF d \in rooms'[ops[i].group] \cap Connected THEN 1 ELSE 0]_vars

\* C31: no stored group has more members than MAX_GROUP_SIZE, whether it
\* was created over REST, created by the create-group signal or extended by
\* add-members.
C31_NoGroupAboveCeiling ==
    \A g \in GroupIds :
        groupStore[g].exists => Cardinality(groupStore[g].members) <= MAX_GROUP_SIZE

====
